---- MODULE Spec2Model ----
(***************************************************************************)
(* State-machine model of SSHConnection (src/src/Connection.ts): the       *)
(* connection-establishment chain (direct or through a bastion host), the  *)
(* registry of live connections, the shell driver, the forwarding listener *)
(* and shutdown.  Every event-loop callback of the class is one action.    *)
(***************************************************************************)
EXTENDS Integers, Sequences, FiniteSets, TLC

(* ------------------------------ bounds --------------------------------- *)
\* calls of tty / executeCommand / forward made by the caller
MaxOps == 2
\* calls of shutdown made by the caller
MaxShutdowns == 1
\* client connections accepted by forwarding listeners
MaxClients == 1
\* the same three budgets where the connect options are varied (SpecConnect)
ConnectOps == 1
\* and where traffic crosses the forwarding listener (SpecForward)
ForwardOps == 1
ForwardClients == 2
\* chunks written by clients and by the far end of their channels
MaxWrites == 2

(* ------------------------------ values --------------------------------- *)
None == "none"

\* command texts handed to executeCommand, as sequences of characters
Commands == { <<>>, <<"l", "s">> }

\* the ForwardingOptions of a call that is not forward()
NoForward == [fromPort |-> 0, toPort |-> 0, toHost |-> None]

\* the channel request of a call that has issued none on a bastion
NoRequest == [srcHost |-> None, srcPort |-> 0, dstHost |-> None, dstPort |-> 0]

\* the argument of shell() when tty() calls it without a command
NoCommand == [defined |-> FALSE, text |-> <<>>]

\* payloads arriving on a shell channel's error stream
StderrPayloads == {"err1"}

\* the errors a transport callback can carry
ConnectError == "connect-error"
ChannelError == "channel-error"
ShellError == "shell-error"

\* line 58: the port used when endPort is not given
DefaultPort == 22
\* line 135: the source port named in the channel request on the bastion
BastionBindPort == 22

\* private keys, as sequences of characters; NoKey is no key at all
NoKey == << >>
PlainKey == << "R", "S", "A" >>
UpperKey == << "4", ",", "E", "N", "C", "R", "Y", "P", "T", "E", "D" >>
LowerKey == << "a", "e", "s", "-", "e", "n", "c", "r", "y", "p", "t", "e", "d" >>

\* what the user types at the passphrase prompt
Answers == {"typed"}

\* the chunks that cross a forwarded connection
Chunks == {"a", "b"}

(* the constructor's inputs: Options (lines 30-37) and the process         *)
(* environment read by connect (lines 50, 160).  Each agent setting is     *)
(* varied only where connect reads it: nothing is read without             *)
(* agentForward (line 155), an explicit agentSocket hides the default      *)
(* (line 168), and the platform matters only without SSH_AUTH_SOCK         *)
(* (line 163).                                                             *)
OptionInputs ==
    { c \in [ bastionHost : {None, "bastion"},
              endHost : {"target"},
              agentForward : BOOLEAN,
              agentSocket : {None, "sock"},
              SSH_AUTH_SOCK : {None, "envsock"},
              isWindows : BOOLEAN,
              endPort : {0},
              privateKey : {NoKey},
              passphrase : {None},
              noReadline : {FALSE} ] :
        /\ ~c.agentForward => c.agentSocket = None
        /\ c.agentSocket # None => c.SSH_AUTH_SOCK = None
        /\ c.SSH_AUTH_SOCK # None => ~c.isWindows
        /\ c.agentSocket # None => ~c.isWindows
        /\ ~c.agentForward => (c.SSH_AUTH_SOCK = None /\ ~c.isWindows) }

(* the inputs that vary what connect hands to the transport: the target   *)
(* port (lines 57-59, 150-154) and the key material with the passphrase    *)
(* settings (lines 177-183).  this.options.privateKey is taken as the      *)
(* constructor leaves it (lines 60-65); the passphrase settings are varied *)
(* only for a key that looks encrypted, since line 181 reads them only     *)
(* then.  endPort 0 stands for an endPort not given; the ConnectConfig     *)
(* fields host and port are not given.                                     *)
ConnectInputs ==
    { c \in [ bastionHost : {None, "bastion"},
              endHost : {"target"},
              agentForward : {FALSE},
              agentSocket : {None},
              SSH_AUTH_SOCK : {None},
              isWindows : {FALSE},
              endPort : {0, 2222},
              privateKey : {NoKey, PlainKey, UpperKey, LowerKey},
              passphrase : {None, "pw"},
              noReadline : BOOLEAN ] :
        /\ c.privateKey \in {NoKey, PlainKey} => (c.passphrase = None /\ ~c.noReadline)
        /\ c.passphrase # None => ~c.noReadline
        /\ c.endPort # 0 => c.privateKey = NoKey
        /\ c.privateKey = LowerKey => (c.passphrase = None /\ ~c.noReadline) }

\* the constructor (lines 52-66): endPort defaults to 22
Constructor(c) ==
    [c EXCEPT !.endPort = IF @ = 0 THEN DefaultPort ELSE @]

\* the arguments of forward(): ForwardingOptions (lines 39-43)
ForwardInputs ==
    [ fromPort : {9000}, toPort : {5432}, toHost : {None, "db"} ]

\* the one rule used where the destination plays no part
DefaultRule == [fromPort |-> 9000, toPort |-> 5432, toHost |-> None]

VARIABLES
    limits,         \* how far the caller and the clients go in this run
    options,        \* this.options and the environment the instance reads
    connections,    \* this.connections: sequence of session ids
    server,         \* this.server: 0 (unset) or the id of a listener
    sessions,       \* every Client object created by connect()
    ops,            \* every tty / executeCommand / forward call and its promise
    servers,        \* every net.Server created by forward()
    clients,        \* every client socket accepted by a listener
    shutdowns,      \* every shutdown() call and its promise
    callerShutdowns,\* number of shutdown() calls made by the caller
    unhandled,      \* rejections of promises nobody awaits
    stdin           \* process.stdin: "open" or "destroyed"

vars == << limits, options, connections, server, sessions, ops, servers, clients,
           shutdowns, callerShutdowns, unhandled, stdin >>

(* ------------------------------ helpers -------------------------------- *)
Range(s) == { s[i] : i \in DOMAIN s }

\* faulty variant: the last resolve/reject wins
SettleOverwrites(p, kind, value) ==
    [p EXCEPT !.outcome = kind, !.value = value]

\* a promise settles once: resolve/reject on a settled promise is ignored
Settle(p, kind, value) ==
    IF p.outcome = "pending"
    THEN [p EXCEPT !.outcome = kind, !.value = value]
    ELSE p

SettleOp(os, o, kind, value) ==
    [os EXCEPT ![o] = Settle(os[o], kind, value)]

\* the close handler of a shell is suspended at its await (line 105): its
\* continuation runs before any other event is dispatched
MicrotaskPending == \E o \in DOMAIN ops : ops[o].pc = "closing"

(* ------------------------- connect (lines 145-200) --------------------- *)
\* lines 160-166: the default agent socket
AgentDefault(opt) ==
    IF opt.isWindows /\ opt.SSH_AUTH_SOCK = None THEN "pageant" ELSE opt.SSH_AUTH_SOCK

\* line 168
AgentSock(opt) ==
    IF opt.agentSocket # None THEN opt.agentSocket ELSE AgentDefault(opt)

\* lines 155, 169-171: the executor throws before any handler is registered
ConfigThrows(opt) == opt.agentForward /\ AgentSock(opt) = None

\* String.prototype.toLowerCase on the letters the keys are made of
ToLowerCase(ch) ==
    CASE ch = "C" -> "c" [] ch = "D" -> "d" [] ch = "E" -> "e"
      [] ch = "N" -> "n" [] ch = "P" -> "p" [] ch = "R" -> "r"
      [] ch = "S" -> "s" [] ch = "A" -> "a" [] ch = "T" -> "t"
      [] ch = "Y" -> "y" [] OTHER -> ch

\* String.prototype.includes
Includes(text, pat) ==
    \E i \in 1 .. (Len(text) - Len(pat) + 1) :
        SubSeq(text, i, i + Len(pat) - 1) = pat

\* faulty variant: the key text is searched as it is written
LooksEncryptedCaseSensitive(key) ==
    IF key # NoKey
    THEN Includes(key, << "e", "n", "c", "r", "y", "p", "t", "e", "d" >>)
    ELSE FALSE

\* line 180
LooksEncrypted(key) ==
    IF key # NoKey
    THEN Includes([i \in DOMAIN key |-> ToLowerCase(key[i])],
                  << "e", "n", "c", "r", "y", "p", "t", "e", "d" >>)
    ELSE FALSE

\* line 181: whether connect asks for the passphrase
Prompts(opt) ==
    LooksEncrypted(opt.privateKey) /\ opt.passphrase = None /\ ~opt.noReadline

\* lines 150-154: the port handed to the transport, whatever the host
ConnectPort(opt, leg) == opt.endPort

\* How one call of connect() leaves its promise.  The executor is an async
\* function, so its throw (line 170) rejects the executor's own promise, which
\* nobody awaits, and the promise connect() returned stays pending: "throws".
\* With a passphrase to ask for the executor waits for the answer before it
\* registers a handler (line 182): "prompting".  A synchronous throw of
\* connection.connect is caught and rejects (line 195): "rejected".
\* Otherwise the attempt is in flight: "pending".
ConnectResult(opt, thr) ==
    IF ConfigThrows(opt) THEN "throws"
    ELSE IF Prompts(opt) THEN "prompting"
    ELSE IF thr THEN "rejected"
    ELSE "pending"

\* the call's promise is still awaited after this call of connect
InFlight(r) == r \in {"pending", "prompting"}

\* the Client object made by connect(host, stream) for call o
Connect(o, host, leg, sock, thr) ==
    LET r == ConnectResult(options, thr) IN
    [ o |-> o, host |-> host, leg |-> leg, sock |-> sock,
      port |-> ConnectPort(options, leg),
      st |-> IF r = "throws" THEN "unconnected"
             ELSE IF r = "prompting" THEN "prompting"
             ELSE IF r = "rejected" THEN "threw" ELSE "connecting",
      agent |-> IF options.agentForward THEN AgentSock(options) ELSE None,
      passphrase |-> options.passphrase,
      prompts |-> IF r = "prompting" THEN 1 ELSE 0,
      attempted |-> r \in {"rejected", "pending"},
      listeners |-> r \in {"rejected", "pending"},
      overtaken |-> FALSE,
      ends |-> 0 ]

(* ------------------------------ initial state -------------------------- *)
InitialState ==
    /\ connections = <<>>
    /\ server = 0
    /\ sessions = <<>>
    /\ ops = <<>>
    /\ servers = <<>>
    /\ clients = <<>>
    /\ shutdowns = <<>>
    /\ callerShutdowns = 0
    /\ unhandled = 0
    /\ stdin = "open"

Init ==
    /\ options \in { Constructor(c) : c \in OptionInputs }
    /\ limits = [ops |-> MaxOps, shutdowns |-> MaxShutdowns,
                 clients |-> MaxClients, writes |-> 0, rules |-> {DefaultRule}]
    /\ InitialState

(* --------------------- establish (lines 121-129) ----------------------- *)
\* the first connect of a call: to the bastion host when one is configured
\* (line 124, 133), else to the end host (line 126)
Establish(kind, command, fo, thr) ==
    LET o == Len(ops) + 1
        viaBastion == options.bastionHost # None
        c == Connect(o,
                     IF viaBastion THEN options.bastionHost ELSE options.endHost,
                     IF viaBastion THEN "bastion" ELSE "direct",
                     0, thr)
        r == ConnectResult(options, thr)
    IN  /\ ~MicrotaskPending
        /\ Len(ops) < limits.ops
        /\ sessions' = Append(sessions, c)
        /\ ops' = Append(ops,
              [ kind |-> kind, command |-> command,
                pc |-> IF r = "throws" THEN "hung"
                       ELSE IF r = "rejected" THEN "done" ELSE "connecting",
                forward |-> fo,
                outcome |-> IF r = "rejected" THEN "rejected" ELSE "pending",
                value |-> IF r = "rejected" THEN ConnectError ELSE None,
                conn |-> 0, bastionChannel |-> "none",
                bastionRequest |-> NoRequest,
                written |-> <<>>, writeEnded |-> FALSE,
                channel |-> "none", stderr |-> None,
                stdinPiped |-> FALSE, stdoutPiped |-> FALSE ])
        /\ unhandled' = unhandled + (IF r = "throws" THEN 1 ELSE 0)
        /\ UNCHANGED << limits, options, connections, server, servers, clients,
                        shutdowns, callerShutdowns, stdin >>

\* tty() (lines 82-86)
CallTty == \E thr \in BOOLEAN : Establish("tty", NoCommand, NoForward, thr)

\* executeCommand(command) (lines 88-92)
CallExecuteCommand ==
    \E text \in Commands, thr \in BOOLEAN :
        Establish("exec", [defined |-> TRUE, text |-> text], NoForward, thr)

\* forward(options) (lines 214-215)
CallForward ==
    \E fo \in limits.rules, thr \in BOOLEAN :
        Establish("forward", NoCommand, fo, thr)

(* ------------------- connect's handlers (lines 184-191) ---------------- *)
\* faulty variant: forward() resolves as soon as the listener is created
AfterEstablishResolvesEarly(o, s) ==
    IF ops[o].kind = "forward"
    THEN /\ servers' = Append(servers,
                [ o |-> o, conn |-> s, st |-> "binding", closePending |-> FALSE ])
         /\ server' = Len(servers) + 1
         /\ ops' = [SettleOp(ops, o, "resolved", "true")
                      EXCEPT ![o].pc = "binding", ![o].conn = s]
    ELSE /\ ops' = [ops EXCEPT ![o].pc = "shellOpen", ![o].conn = s]
         /\ UNCHANGED << server, servers >>

\* what the call does once establish() has returned session s:
\* shell() issues connection.shell (line 96); forward() creates the listener,
\* stores it in this.server and starts listening (lines 217, 231)
AfterEstablish(o, s) ==
    IF ops[o].kind = "forward"
    THEN /\ servers' = Append(servers,
                [ o |-> o, conn |-> s, st |-> "binding", closePending |-> FALSE ])
         /\ server' = Len(servers) + 1
         /\ ops' = [ops EXCEPT ![o].pc = "binding", ![o].conn = s]
    ELSE /\ ops' = [ops EXCEPT ![o].pc = "shellOpen", ![o].conn = s]
         /\ UNCHANGED << server, servers >>

\* faulty variant: a session is registered whichever event its connect ends with
RegistryOnAnyEvent(event, s) == Append(connections, s)

\* the registry after an event of session s: only 'ready' pushes (line 185)
RegistryOn(event, s) ==
    IF event = "ready" THEN Append(connections, s) ELSE connections

\* line 135: the arguments of forwardOut on the bastion session
BastionRequest(opt) ==
    [ srcHost |-> "127.0.0.1", srcPort |-> BastionBindPort,
      dstHost |-> opt.endHost,
      dstPort |-> IF opt.endPort # 0 THEN opt.endPort ELSE DefaultPort ]

\* 'ready' (lines 184-187): the session is registered and the connect promise
\* resolves; the awaiting code runs on: the bastion leg issues forwardOut
\* (line 135), a direct or target session is what establish() returns
ConnReady(s) ==
    /\ ~MicrotaskPending
    /\ s \in DOMAIN sessions
    /\ sessions[s].st = "connecting"
    /\ sessions' = [sessions EXCEPT ![s].st = "ready", ![s].overtaken = FALSE]
    /\ connections' = RegistryOn("ready", s)
    /\ IF sessions[s].leg = "bastion"
       THEN /\ ops' = [ops EXCEPT ![sessions[s].o].pc = "bastionForward",
                                    ![sessions[s].o].bastionChannel = "requested",
                                    ![sessions[s].o].bastionRequest =
                                        BastionRequest(options)]
            /\ UNCHANGED << server, servers >>
       ELSE AfterEstablish(sessions[s].o, s)
    /\ UNCHANGED << limits, options, clients, shutdowns, callerShutdowns, unhandled, stdin >>

\* 'error' before ready (lines 189-191): the connect promise rejects.  On the
\* direct and the bastion leg the call awaits it and rejects too.  On the target
\* leg it is awaited inside forwardOut's async callback (line 139): the throw
\* rejects that callback's promise, which nobody handles, and the promise of
\* connectViaBastion is never settled.
ConnError(s) ==
    /\ ~MicrotaskPending
    /\ s \in DOMAIN sessions
    /\ sessions[s].st = "connecting"
    /\ sessions' = [sessions EXCEPT ![s].st = "error", ![s].overtaken = FALSE]
    /\ IF sessions[s].leg = "target"
       THEN /\ ops' = [ops EXCEPT ![sessions[s].o].pc = "hung"]
            /\ unhandled' = unhandled + 1
       ELSE /\ ops' = [SettleOp(ops, sessions[s].o, "rejected", ConnectError)
                         EXCEPT ![sessions[s].o].pc = "done"]
            /\ UNCHANGED unhandled
    /\ connections' = RegistryOn("error", s)
    /\ UNCHANGED << limits, options, server, servers, clients,
                    shutdowns, callerShutdowns, stdin >>

\* the answer to the passphrase prompt (lines 182, 206-209): the executor runs
\* on, registers the handlers and calls connection.connect with the answer
\* as passphrase (lines 184-196); a synchronous throw of that call rejects
\* the connect promise as the error event does
PassphraseAnswer(s, answer, thr) ==
    /\ ~MicrotaskPending
    /\ s \in DOMAIN sessions
    /\ sessions[s].st = "prompting"
    /\ sessions' = [sessions EXCEPT ![s].passphrase = answer,
                                    ![s].attempted = TRUE,
                                    ![s].listeners = TRUE,
                                    ![s].overtaken = IF thr THEN FALSE ELSE @,
                                    ![s].st = IF thr THEN "threw" ELSE "connecting"]
    /\ IF ~thr
       THEN UNCHANGED << ops, unhandled >>
       ELSE IF sessions[s].leg = "target"
       THEN /\ ops' = [ops EXCEPT ![sessions[s].o].pc = "hung"]
            /\ unhandled' = unhandled + 1
       ELSE /\ ops' = [SettleOp(ops, sessions[s].o, "rejected", ConnectError)
                         EXCEPT ![sessions[s].o].pc = "done"]
            /\ UNCHANGED unhandled
    /\ UNCHANGED << limits, options, connections, server, servers, clients,
                    shutdowns, callerShutdowns, stdin >>

(* ----------------- connectViaBastion (lines 131-143) ------------------- *)
\* faulty variant: the target is dialled over a socket of its own
TargetSockRaw(b) == 0

\* line 140: the stream of the channel opened on bastion session b is what
\* the second connect is given as sock
TargetSock(b) == b

\* the callback of forwardOut on the bastion session (lines 135-141)
BastionForwardOut(o, err, thr) ==
    /\ ~MicrotaskPending
    /\ o \in DOMAIN ops
    /\ ops[o].pc = "bastionForward"
    /\ err => ~thr
    /\ IF err
       THEN /\ ops' = [SettleOp(ops, o, "rejected", ChannelError)
                         EXCEPT ![o].pc = "done", ![o].bastionChannel = "error"]
            /\ UNCHANGED << sessions, unhandled >>
       ELSE LET b == CHOOSE s \in DOMAIN sessions :
                        sessions[s].o = o /\ sessions[s].leg = "bastion"
                r == ConnectResult(options, thr)
            IN  /\ sessions' = Append(sessions,
                        Connect(o, options.endHost, "target", TargetSock(b), thr))
                /\ ops' = [ops EXCEPT ![o].bastionChannel = "open",
                                      ![o].pc =
                             IF InFlight(r) THEN "connecting2" ELSE "hung"]
                /\ unhandled' = unhandled + (IF InFlight(r) THEN 0 ELSE 1)
    /\ UNCHANGED << limits, options, connections, server, servers, clients,
                    shutdowns, callerShutdowns, stdin >>

(* ------------------------ shutdown (lines 68-80) ----------------------- *)
\* faulty variant: the loop misses the first session registered
ShutdownOrderSkipsFirst(conns) ==
    IF conns = << >> THEN conns ELSE Tail(conns)

\* faulty variant: the loop passes over sessions that were sent end before
ShutdownOrderSkipsEnded(conns) ==
    SelectSeq(conns, LAMBDA s : sessions[s].ends = 0)

\* lines 70-73: the sessions the loop visits, in the order it visits them
ShutdownOrder(conns) == conns

\* lines 71-72 applied to every session of `order`; a session whose connect
\* is still under way is passed over, which its record notes for as long as
\* the connect lasts
EndAll(ss, order) ==
    [ i \in DOMAIN ss |->
        IF i \in Range(order)
        THEN [ss[i] EXCEPT !.listeners = FALSE, !.ends = @ + 1]
        ELSE IF ss[i].st \in {"prompting", "connecting"}
        THEN [ss[i] EXCEPT !.overtaken = TRUE]
        ELSE ss[i] ]

\* what one run of shutdown() sends, in order: removeAllListeners and end for
\* each session (lines 71-72), then close on the listener if set (lines 75-76)
ShutdownSignals(conns, srv) ==
    LET order == ShutdownOrder(conns) IN
    [ i \in 1 .. 2 * Len(order) |->
        IF i % 2 = 1
        THEN [sig |-> "detach", id |-> order[(i + 1) \div 2]]
        ELSE [sig |-> "end", id |-> order[i \div 2]] ]
    \o (IF srv # 0 THEN << [sig |-> "close", id |-> srv] >> ELSE << >>)

\* net.Server.close(cb): stop accepting; cb fires on 'close', once no client
\* connection is left
ServerClose(sv) ==
    [sv EXCEPT !.st = IF @ = "listening" THEN "closed" ELSE @,
               !.closePending = TRUE]

\* faulty variant: the error server.close reports for a listener that is not running
\* rejects the promise
ShutdownPromiseRejectsNotRunning(srv) ==
    IF srv # 0 /\ servers[srv].st # "listening"
    THEN Settle([outcome |-> "pending", value |-> None], "rejected", "not-running")
    ELSE Settle([outcome |-> "pending", value |-> None], "resolved", None)

\* lines 74-79: the promise shutdown() returns.  resolve is handed to
\* server.close (line 76) and then called at once (line 78), listener or not.
ShutdownPromise(srv) ==
    Settle([outcome |-> "pending", value |-> None], "resolved", None)

\* the record of one run of shutdown(), by the caller (0) or by the close
\* handler of shell call `by`
ShutdownRun(by) ==
    LET p == ShutdownPromise(server) IN
    [ by |-> by,
      signals |-> ShutdownSignals(connections, server),
      closeOn |-> server,
      active |-> server # 0 /\ servers[server].st = "listening",
      closeDone |-> FALSE,
      outcome |-> p.outcome,
      value |-> p.value ]

SessionsAfterShutdown(ss) == EndAll(ss, ShutdownOrder(connections))

ServersAfterShutdown ==
    IF server # 0
    THEN [servers EXCEPT ![server] = ServerClose(@)]
    ELSE servers

\* faulty variant: the close handler ends its own session and skips shutdown()
CloseHandlerEndsOwnOnly(conn) ==
    [sessions EXCEPT ![conn].ends = @ + 1]

\* lines 104-105 of the shell's close handler: connection.end(), then
\* shutdown()
CloseHandlerEnds(conn) ==
    SessionsAfterShutdown([sessions EXCEPT ![conn].ends = @ + 1])

\* shutdown() called by the user of the class
CallShutdown ==
    /\ ~MicrotaskPending
    /\ callerShutdowns < limits.shutdowns
    /\ callerShutdowns' = callerShutdowns + 1
    /\ sessions' = SessionsAfterShutdown(sessions)
    /\ servers' = ServersAfterShutdown
    /\ shutdowns' = Append(shutdowns, ShutdownRun(0))
    /\ UNCHANGED << limits, options, connections, server, ops, clients, unhandled, stdin >>

(* -------------------------- shell (lines 94-119) ----------------------- *)
\* line 112: the truthiness test on the command
Truthy(command) == command.defined /\ command.text # << >>

\* line 113: the bytes of `${command}\nexit\n`
CommandBytes(text) == text \o << "\n", "e", "x", "i", "t", "\n" >>

\* the callback of connection.shell (lines 96-117)
ShellCallback(o, err) ==
    /\ ~MicrotaskPending
    /\ o \in DOMAIN ops
    /\ ops[o].pc = "shellOpen"
    /\ IF err
       THEN ops' = [SettleOp(ops, o, "rejected", ShellError) EXCEPT ![o].pc = "done"]
       ELSE IF Truthy(ops[o].command)
       THEN ops' = [ops EXCEPT ![o].pc = "shell", ![o].stdoutPiped = TRUE,
                               ![o].channel = "open",
                               ![o].written = CommandBytes(ops[o].command.text),
                               ![o].writeEnded = TRUE]
       ELSE ops' = [ops EXCEPT ![o].pc = "shell", ![o].stdoutPiped = TRUE,
                               ![o].channel = "open",
                               ![o].stdinPiped = TRUE]
    /\ UNCHANGED << limits, options, connections, server, sessions, servers, clients,
                    shutdowns, callerShutdowns, unhandled, stdin >>

\* 'data' on the channel's stderr (lines 107-109)
StderrData(o, data) ==
    /\ ~MicrotaskPending
    /\ o \in DOMAIN ops
    /\ ops[o].pc = "shell"
    /\ ops' = [SettleOp(ops, o, "rejected", data)
                 EXCEPT ![o].stderr = IF @ = None THEN data ELSE @]
    /\ UNCHANGED << limits, options, connections, server, sessions, servers, clients,
                    shutdowns, callerShutdowns, unhandled, stdin >>

\* 'close' on the channel, up to the await (lines 100-105): stream.end,
\* unpipe and destroy stdin, end the session, run shutdown()
ChannelClose(o) ==
    /\ ~MicrotaskPending
    /\ o \in DOMAIN ops
    /\ ops[o].pc = "shell"
    /\ ops' = [ops EXCEPT ![o].pc = "closing", ![o].channel = "closed",
                          ![o].writeEnded = TRUE, ![o].stdinPiped = FALSE]
    /\ stdin' = "destroyed"
    /\ sessions' = CloseHandlerEnds(ops[o].conn)
    /\ servers' = ServersAfterShutdown
    /\ shutdowns' = Append(shutdowns, ShutdownRun(o))
    /\ UNCHANGED << limits, options, connections, server, clients, callerShutdowns, unhandled >>

\* the close handler after its await (line 106)
ShellResolve(o) ==
    /\ o \in DOMAIN ops
    /\ ops[o].pc = "closing"
    /\ ops' = [SettleOp(ops, o, "resolved", "true") EXCEPT ![o].pc = "done"]
    /\ UNCHANGED << limits, options, connections, server, sessions, servers, clients,
                    shutdowns, callerShutdowns, unhandled, stdin >>

(* ------------------------- forward (lines 214-235) --------------------- *)
\* an accepted socket that neither side has closed
LiveClient(c) == c.socket = "open"

\* the local port of listener i is held by another listener of the instance
PortTaken(i) ==
    \E j \in DOMAIN servers :
        /\ j # i
        /\ servers[j].st = "listening"
        /\ ops[servers[j].o].forward.fromPort = ops[servers[i].o].forward.fromPort

\* the listen callback (lines 231-233)
ListenCallback(i) ==
    /\ ~MicrotaskPending
    /\ i \in DOMAIN servers
    /\ servers[i].st = "binding"
    /\ ~PortTaken(i)
    /\ servers' = [servers EXCEPT ![i].st = "listening"]
    /\ ops' = [SettleOp(ops, servers[i].o, "resolved", "true")
                 EXCEPT ![servers[i].o].pc = "listening"]
    /\ UNCHANGED << limits, options, connections, server, sessions, clients,
                    shutdowns, callerShutdowns, unhandled, stdin >>

\* the listener fails to start, for one because fromPort is taken: the
\* net.Server emits 'error', for which no handler is registered (lines
\* 217-233), so the event is thrown as an uncaught exception and the promise
\* of forward() is left as it is
ListenFails(i) ==
    /\ ~MicrotaskPending
    /\ i \in DOMAIN servers
    /\ servers[i].st = "binding"
    /\ servers' = [servers EXCEPT ![i].st = "failed"]
    /\ ops' = [ops EXCEPT ![servers[i].o].pc = "hung"]
    /\ UNCHANGED << limits, options, connections, server, sessions, clients,
                    shutdowns, callerShutdowns, unhandled, stdin >>

\* lines 220-221: the arguments of the per-client forwardOut
ForwardRequest(fo) ==
    [ srcHost |-> "localhost", srcPort |-> fo.fromPort,
      dstHost |-> IF fo.toHost # None THEN fo.toHost ELSE "localhost",
      dstPort |-> fo.toPort ]

\* faulty variant: only the client's side is piped into the channel
SpliceOneWay == [up |-> TRUE, down |-> FALSE]

\* lines 224-225: socket.pipe(stream) and stream.pipe(socket)
Splice == [up |-> TRUE, down |-> TRUE]

\* the chunks written so far on the first n accepted connections
RECURSIVE WritesUpTo(_)
WritesUpTo(n) ==
    IF n = 0 THEN 0
    ELSE Len(clients[n].up) + Len(clients[n].down) + WritesUpTo(n - 1)

\* the connection handler (lines 217-230): one forwardOut on the session the
\* call established.  forwardOut throws when the session is no longer
\* connected; the throw is caught and logged (lines 228-230) and the accepted
\* socket is left as it is.
ClientConnect(i) ==
    /\ ~MicrotaskPending
    /\ i \in DOMAIN servers
    /\ servers[i].st = "listening"
    /\ Len(clients) < limits.clients
    /\ clients' = Append(clients,
          [ srv |-> i,
            socket |-> "open",
            requests |-> << [ on |-> servers[i].conn,
                              args |-> ForwardRequest(ops[servers[i].o].forward) ] >>,
            chan |-> IF sessions[servers[i].conn].ends > 0
                     THEN "threw" ELSE "requested",
            pipes |-> [up |-> FALSE, down |-> FALSE],
            up |-> << >>, upDelivered |-> << >>,
            down |-> << >>, downDelivered |-> << >> ])
    /\ UNCHANGED << limits, options, connections, server, sessions, ops, servers,
                    shutdowns, callerShutdowns, unhandled, stdin >>

\* faulty variant: a failed channel open tears down every connection of the listener
ChannelErrorDropsAll(c) ==
    [ d \in DOMAIN clients |->
        IF d = c THEN [clients[d] EXCEPT !.chan = "error"]
        ELSE IF clients[d].srv = clients[c].srv
        THEN [clients[d] EXCEPT !.socket = "closed",
                                !.pipes = [up |-> FALSE, down |-> FALSE]]
        ELSE clients[d] ]

\* line 222: on a channel-open error the callback returns after reject; the
\* accepted socket is not touched
ChannelErrorEffect(c) == [clients EXCEPT ![c].chan = "error"]

\* the callback of the per-client forwardOut (lines 220-226); what the socket
\* buffered before the pipe was set up flows into the channel
ClientForwardOut(c, err) ==
    /\ ~MicrotaskPending
    /\ c \in DOMAIN clients
    /\ clients[c].chan = "requested"
    /\ IF err
       THEN /\ ops' = SettleOp(ops, servers[clients[c].srv].o, "rejected", ChannelError)
            /\ clients' = ChannelErrorEffect(c)
       ELSE /\ clients' = [clients EXCEPT
                  ![c].chan = "open",
                  ![c].pipes = Splice,
                  ![c].upDelivered = IF Splice.up THEN clients[c].up ELSE @]
            /\ UNCHANGED ops
    /\ UNCHANGED << limits, options, connections, server, sessions, servers,
                    shutdowns, callerShutdowns, unhandled, stdin >>

\* the client writes a chunk to its connection
ClientWrite(c, ch) ==
    /\ ~MicrotaskPending
    /\ c \in DOMAIN clients
    /\ LiveClient(clients[c])
    /\ WritesUpTo(Len(clients)) < limits.writes
    /\ clients' = [clients EXCEPT
          ![c].up = Append(@, ch),
          ![c].upDelivered = IF clients[c].pipes.up THEN Append(@, ch) ELSE @]
    /\ UNCHANGED << limits, options, connections, server, sessions, ops, servers,
                    shutdowns, callerShutdowns, unhandled, stdin >>

\* the far end writes a chunk to the forwarded channel
ChannelWrite(c, ch) ==
    /\ ~MicrotaskPending
    /\ c \in DOMAIN clients
    /\ clients[c].chan = "open"
    /\ WritesUpTo(Len(clients)) < limits.writes
    /\ clients' = [clients EXCEPT
          ![c].down = Append(@, ch),
          ![c].downDelivered = IF clients[c].pipes.down THEN Append(@, ch) ELSE @]
    /\ UNCHANGED << limits, options, connections, server, sessions, ops, servers,
                    shutdowns, callerShutdowns, unhandled, stdin >>

\* the client side closes its connection.  A channel request still out is
\* answered to no effect from then on: the call has resolved, so reject does
\* nothing (line 222), and the pipes are set up on a socket that has ended.
ClientDisconnect(c) ==
    /\ ~MicrotaskPending
    /\ c \in DOMAIN clients
    /\ LiveClient(clients[c])
    /\ clients' = [clients EXCEPT
          ![c].socket = "closed",
          ![c].chan = IF @ \in {"requested", "open"} THEN "closed" ELSE @,
          ![c].pipes = [up |-> FALSE, down |-> FALSE]]
    /\ UNCHANGED << limits, options, connections, server, sessions, ops, servers,
                    shutdowns, callerShutdowns, unhandled, stdin >>

\* 'close' of a listener: the callbacks given to server.close run (line 76)
ServerClosed(i) ==
    /\ ~MicrotaskPending
    /\ i \in DOMAIN servers
    /\ servers[i].closePending
    /\ \A c \in DOMAIN clients : clients[c].srv = i => ~LiveClient(clients[c])
    /\ servers' = [servers EXCEPT ![i].closePending = FALSE]
    /\ shutdowns' = [ k \in DOMAIN shutdowns |->
                        IF shutdowns[k].closeOn = i
                        THEN [shutdowns[k] EXCEPT !.closeDone = TRUE]
                        ELSE shutdowns[k] ]
    /\ UNCHANGED << limits, options, connections, server, sessions, ops, clients,
                    callerShutdowns, unhandled, stdin >>

(* ------------------------------ specification -------------------------- *)
\* every call and every event of the class, the options as OptionInputs: no
\* key is set, so connect never asks for a passphrase, and no traffic is
\* followed on the accepted connections
Next ==
    \/ CallTty
    \/ CallExecuteCommand
    \/ CallForward
    \/ CallShutdown
    \/ \E s \in DOMAIN sessions : ConnReady(s)
    \/ \E s \in DOMAIN sessions : ConnError(s)
    \/ \E o \in DOMAIN ops, err, thr \in BOOLEAN : BastionForwardOut(o, err, thr)
    \/ \E o \in DOMAIN ops, err \in BOOLEAN : ShellCallback(o, err)
    \/ \E o \in DOMAIN ops, d \in StderrPayloads : StderrData(o, d)
    \/ \E o \in DOMAIN ops : ChannelClose(o)
    \/ \E o \in DOMAIN ops : ShellResolve(o)
    \/ \E i \in DOMAIN servers : ListenCallback(i)
    \/ \E i \in DOMAIN servers : ListenFails(i)
    \/ \E i \in DOMAIN servers : ClientConnect(i)
    \/ \E c \in DOMAIN clients, err \in BOOLEAN : ClientForwardOut(c, err)
    \/ \E c \in DOMAIN clients : ClientDisconnect(c)
    \/ \E i \in DOMAIN servers : ServerClosed(i)

Spec == Init /\ [][Next]_vars

\* the same calls and events with the target port and the key material varied,
\* where connect may stop to ask for the passphrase
InitConnect ==
    /\ options \in { Constructor(c) : c \in ConnectInputs }
    /\ limits = [ops |-> ConnectOps, shutdowns |-> MaxShutdowns,
                 clients |-> MaxClients, writes |-> 0, rules |-> {DefaultRule}]
    /\ InitialState

NextConnect ==
    \/ Next
    \/ \E s \in DOMAIN sessions, a \in Answers, thr \in BOOLEAN :
          PassphraseAnswer(s, a, thr)

SpecConnect == InitConnect /\ [][NextConnect]_vars

\* forward() and shutdown() alone, so no shell is ever opened, with several
\* clients and with traffic on the accepted connections
InitForward ==
    /\ options \in { Constructor(c) : c \in OptionInputs }
    /\ ~options.agentForward
    /\ limits = [ops |-> ForwardOps, shutdowns |-> MaxShutdowns,
                 clients |-> ForwardClients, writes |-> MaxWrites,
                 rules |-> ForwardInputs]
    /\ InitialState

NextForward ==
    \/ CallForward
    \/ CallShutdown
    \/ \E s \in DOMAIN sessions : ConnReady(s)
    \/ \E s \in DOMAIN sessions : ConnError(s)
    \/ \E o \in DOMAIN ops, err, thr \in BOOLEAN : BastionForwardOut(o, err, thr)
    \/ \E i \in DOMAIN servers : ListenCallback(i)
    \/ \E i \in DOMAIN servers : ListenFails(i)
    \/ \E i \in DOMAIN servers : ClientConnect(i)
    \/ \E c \in DOMAIN clients, err \in BOOLEAN : ClientForwardOut(c, err)
    \/ \E c \in DOMAIN clients, ch \in Chunks : ClientWrite(c, ch)
    \/ \E c \in DOMAIN clients, ch \in Chunks : ChannelWrite(c, ch)
    \/ \E c \in DOMAIN clients : ClientDisconnect(c)
    \/ \E i \in DOMAIN servers : ServerClosed(i)

SpecForward == InitForward /\ [][NextForward]_vars

(* ================================ claims =============================== *)
\* a step in which shutdown() runs, called by the user or by a close handler
ShutdownStep == Len(shutdowns') = Len(shutdowns) + 1

\* the run of shutdown() made by a ShutdownStep
NewRun == shutdowns'[Len(shutdowns')]

\* the signals of a run that go to sessions
SessionSignals(run) == SelectSeq(run.signals, LAMBDA g : g.sig # "close")

\* C1: every run of shutdown() detaches the listeners of and sends end to each
\* session of the registry, in registration order, each session's listeners
\* gone and its end count raised afterwards, and then, if the listener in the
\* slot is active, issues close on it.
C1_ShutdownEndsRegistryInOrder ==
    [][ ShutdownStep =>
          /\ Len(SessionSignals(NewRun)) = 2 * Len(connections)
          /\ \A i \in 1 .. Len(connections) :
                /\ NewRun.signals[2 * i - 1] = [sig |-> "detach", id |-> connections[i]]
                /\ NewRun.signals[2 * i] = [sig |-> "end", id |-> connections[i]]
                /\ sessions'[connections[i]].ends > sessions[connections[i]].ends
                /\ ~sessions'[connections[i]].listeners
          /\ (server # 0 /\ servers[server].st = "listening") =>
                /\ Len(NewRun.signals) = 2 * Len(connections) + 1
                /\ NewRun.signals[Len(NewRun.signals)] = [sig |-> "close", id |-> server]
                /\ servers'[server].st = "closed"
                /\ servers'[server].closePending
      ]_vars

\* C1 witness: a run of shutdown() over two registered sessions and an active
\* listener
C1_Witness ==
    \E k \in DOMAIN shutdowns :
        /\ shutdowns[k].active
        /\ Len(shutdowns[k].signals) = 5
        /\ Len(connections) = 2

\* C2: no run of shutdown() that found an active listener has its promise
\* resolved while that listener's close callback has not fired.
C2_ResolvesAfterListenerClose ==
    \A k \in DOMAIN shutdowns :
        (shutdowns[k].active /\ shutdowns[k].outcome = "resolved")
            => shutdowns[k].closeDone

\* C3: the promise of every run of shutdown() is resolved, never rejected and
\* never left pending: with nothing registered, with sessions and a listener,
\* and in a run that follows an earlier one.
C3_ShutdownNeverRejects ==
    \A k \in DOMAIN shutdowns : shutdowns[k].outcome = "resolved"

\* C3 witness: a run by the caller after the run made by a shell's close
\* handler, over a registry that holds sessions
C3_Witness ==
    \E k1, k2 \in DOMAIN shutdowns :
        /\ k1 < k2
        /\ shutdowns[k1].by # 0
        /\ shutdowns[k2].by = 0
        /\ shutdowns[k2].signals # << >>

\* C4 as claimed: a run of shutdown() leaves the registry empty and the
\* listener slot unset.
C4_ShutdownDrainsRegistry ==
    [][ ShutdownStep => (connections' = << >> /\ server' = 0) ]_vars

\* C4 as amended: a run of shutdown() leaves the registry and the listener
\* slot as they were, so a later run sends detach and end again to every
\* session an earlier run signalled, in the same order, and issues close again
\* if the earlier run did.
C4_ShutdownKeepsRegistry ==
    [][ ShutdownStep =>
          /\ connections' = connections
          /\ server' = server
          /\ \A k \in DOMAIN shutdowns :
                /\ Len(SessionSignals(shutdowns[k])) <= Len(SessionSignals(NewRun))
                /\ SubSeq(SessionSignals(NewRun), 1, Len(SessionSignals(shutdowns[k])))
                      = SessionSignals(shutdowns[k])
                /\ shutdowns[k].closeOn # 0 => NewRun.closeOn # 0
      ]_vars

\* C4 witness: two runs of shutdown(), the second of which signals sessions
\* and issues close again
C4_Witness ==
    \E k1, k2 \in DOMAIN shutdowns :
        /\ k1 < k2
        /\ shutdowns[k1].closeOn # 0
        /\ SessionSignals(shutdowns[k1]) # << >>
        /\ shutdowns[k2].closeOn # 0
        /\ \A s \in Range(connections) : sessions[s].ends >= 2

\* the case of C5: agent forwarding asked for and no agent socket resolvable
NoAgentSocket ==
    /\ options.agentForward
    /\ options.agentSocket = None
    /\ options.SSH_AUTH_SOCK = None
    /\ ~options.isWindows

\* C5: with agent forwarding asked for and no socket resolvable, every call
\* of tty, executeCommand or forward is rejected and no connect attempt is made.
C5_NoAgentSocketRejects ==
    NoAgentSocket =>
        /\ \A o \in DOMAIN ops : ops[o].outcome = "rejected"
        /\ \A s \in DOMAIN sessions : ~sessions[s].attempted

\* C6: a transport error event on the connect of any leg, or a channel-open
\* error on the bastion, leaves the call rejected, and no connect is attempted
\* for the call afterwards.
C6_EstablishFailureRejects ==
    /\ \A s \in DOMAIN sessions :
          sessions[s].st = "error" =>
              /\ ops[sessions[s].o].outcome = "rejected"
              /\ \A t \in DOMAIN sessions : sessions[t].o = sessions[s].o => t <= s
    /\ \A o \in DOMAIN ops :
          ops[o].bastionChannel = "error" =>
              /\ ops[o].outcome = "rejected"
              /\ \A t \in DOMAIN sessions :
                    sessions[t].o = o => sessions[t].leg = "bastion"

\* C7: once the shell channel of an executeCommand call is open it has
\* received the command's bytes followed by "\nexit\n", its write side is
\* closed and stdin is not piped into it.
C7_CommandBytesWritten ==
    \A o \in DOMAIN ops :
        (ops[o].kind = "exec" /\ ops[o].channel # "none") =>
            /\ ops[o].written = ops[o].command.text \o << "\n", "e", "x", "i", "t", "\n" >>
            /\ ops[o].writeEnded
            /\ ~ops[o].stdinPiped

\* C8: the step that resolves a tty or executeCommand call comes after the
\* channel's close; at that step stdin is no longer piped into the channel,
\* the shell's session has been ended by the handler and again by shutdown, a
\* run of shutdown() made by the handler is on record, and every session of
\* the registry has lost its listeners and received end.
C8_ShellResolvesAfterTeardown ==
    [][ \A o \in DOMAIN ops :
          (ops[o].kind # "forward" /\ ops[o].outcome = "pending"
              /\ ops'[o].outcome = "resolved") =>
            /\ ops[o].channel = "closed"
            /\ ~ops'[o].stdinPiped
            /\ stdin' = "destroyed"
            /\ sessions'[ops[o].conn].ends >= 2
            /\ \E k \in DOMAIN shutdowns' : shutdowns'[k].by = o
            /\ \A s \in Range(connections') :
                  sessions'[s].ends >= 1 /\ ~sessions'[s].listeners
      ]_vars

\* C8 witness: a shell call through a bastion resolved, bastion and target
\* sessions both ended
C8_Witness ==
    \E o \in DOMAIN ops :
        /\ ops[o].kind # "forward"
        /\ ops[o].outcome = "resolved"
        /\ \E s \in DOMAIN sessions :
              sessions[s].o = o /\ sessions[s].leg = "bastion" /\ sessions[s].ends >= 1

\* C9: a shell call that received error-stream data while its channel was
\* open is rejected with the first data received, also after the channel
\* has closed.
C9_StderrDataRejects ==
    \A o \in DOMAIN ops :
        ops[o].stderr # None =>
            /\ ops[o].outcome = "rejected"
            /\ ops[o].value = ops[o].stderr

\* C9 witness: error-stream data, then the channel's close, handled to the end
C9_Witness ==
    \E o \in DOMAIN ops :
        ops[o].stderr # None /\ ops[o].channel = "closed" /\ ops[o].pc = "done"

\* the listen callback of listener i has fired
Listening(i) == servers[i].st \in {"listening", "closed"}

\* C10: a forward call is resolved exactly when the listen callback of its
\* listener has fired, on an established session; whether any client has
\* connected plays no part.
C10_ForwardResolvesWhenListening ==
    \A o \in DOMAIN ops :
        ops[o].kind = "forward" =>
            /\ ops[o].outcome = "resolved" =>
                  /\ ops[o].conn # 0
                  /\ sessions[ops[o].conn].st = "ready"
                  /\ \E i \in DOMAIN servers : servers[i].o = o /\ Listening(i)
            /\ \A i \in DOMAIN servers :
                  (servers[i].o = o /\ Listening(i)) => ops[o].outcome = "resolved"

\* C10 witness: a forward call resolved with its listener accepting and no
\* client yet
C10_Witness ==
    \E o \in DOMAIN ops :
        /\ ops[o].kind = "forward"
        /\ ops[o].outcome = "resolved"
        /\ clients = << >>
        /\ \E i \in DOMAIN servers : servers[i].o = o /\ servers[i].st = "listening"

\* C11: for every accepted client the connection handler has made exactly
\* one forwardOut call, on the session the forward call established, with
\* source ("localhost", fromPort) and destination (toHost, or "localhost"
\* when toHost is not given, toPort); while the channel is open the channel
\* has received exactly what the client wrote and the client exactly what was
\* written to the channel, in the order written.
C11_OneRequestAndFaithfulSplice ==
    \A c \in DOMAIN clients :
        LET o == servers[clients[c].srv].o
            fo == ops[o].forward
            rq == clients[c].requests
        IN  /\ Len(rq) = 1
            /\ rq[1].on = ops[o].conn
            /\ sessions[rq[1].on].o = o
            /\ sessions[rq[1].on].leg # "bastion"
            /\ sessions[rq[1].on].st = "ready"
            /\ rq[1].args.srcHost = "localhost"
            /\ rq[1].args.srcPort = fo.fromPort
            /\ rq[1].args.dstHost = (IF fo.toHost = None THEN "localhost" ELSE fo.toHost)
            /\ rq[1].args.dstPort = fo.toPort
            /\ clients[c].chan = "open" =>
                  /\ clients[c].upDelivered = clients[c].up
                  /\ clients[c].downDelivered = clients[c].down

\* C11 witness: a client of a rule without toHost, its channel open, with
\* chunks gone through in both directions
C11_Witness ==
    \E c \in DOMAIN clients :
        /\ ops[servers[clients[c].srv].o].forward.toHost = None
        /\ clients[c].chan = "open"
        /\ clients[c].upDelivered # << >>
        /\ clients[c].downDelivered # << >>

\* C12: the step in which the channel open of one client fails finds the
\* forward call resolved and leaves it resolved with the same value, leaves
\* every listener as it was, accepting if it was, and leaves the record of
\* every other client, its pipes and its chunks included, untouched.
C12_ChannelFailureIsolated ==
    [][ \A c \in DOMAIN clients :
          (clients[c].chan = "requested" /\ clients'[c].chan = "error") =>
            LET o == servers[clients[c].srv].o IN
            /\ ops[o].outcome = "resolved"
            /\ ops'[o].outcome = "resolved"
            /\ ops'[o].value = ops[o].value
            /\ servers' = servers
            /\ \A d \in DOMAIN clients \ {c} : clients'[d] = clients[d]
      ]_vars

\* C12 witness: of two clients of a listener that still accepts, one whose
\* channel open failed and one spliced with a chunk delivered
C12_Witness ==
    \E c, d \in DOMAIN clients :
        /\ clients[c].srv = clients[d].srv
        /\ servers[clients[c].srv].st = "listening"
        /\ clients[c].chan = "error"
        /\ clients[d].chan = "open"
        /\ clients[d].pipes = [up |-> TRUE, down |-> TRUE]
        /\ clients[d].upDelivered # << >>

\* C13: the step in which the channel open of an accepted client fails
\* closes that client's socket.
C13_FailedClientDropped ==
    [][ \A c \in DOMAIN clients :
          (clients[c].chan = "requested" /\ clients'[c].chan = "error") =>
              clients'[c].socket = "closed"
      ]_vars

\* C14: at most one listener is accepting at any time, and a listener that
\* is accepting is the one this.server holds.
C14_OneActiveListenerInSlot ==
    /\ Cardinality({ i \in DOMAIN servers : servers[i].st = "listening" }) <= 1
    /\ \A i \in DOMAIN servers : servers[i].st = "listening" => server = i

\* C15: a forward call whose listener failed to start is rejected.
C15_ListenFailureRejects ==
    \A i \in DOMAIN servers :
        servers[i].st = "failed" => ops[servers[i].o].outcome = "rejected"

\* C16: every connect to a bastion host is made on port 22, whatever
\* endPort is; a direct connect is made on the target port, and the channel
\* asked of the bastion leads to the target port (22 when endPort is not
\* given).
C16_BastionDialledOnPort22 ==
    /\ \A s \in DOMAIN sessions :
          sessions[s].attempted =>
              /\ sessions[s].leg = "bastion" => sessions[s].port = 22
              /\ sessions[s].leg = "direct" => sessions[s].port = options.endPort
    /\ \A o \in DOMAIN ops :
          ops[o].bastionChannel # "none" =>
              ops[o].bastionRequest.dstPort = options.endPort

\* the sessions made by connect() for call o
SessionsOf(o) == { s \in DOMAIN sessions : sessions[s].o = o }

\* C17: without a bastion host a call makes one connect, to endHost over a
\* socket of its own.  With one it makes at most two, and two once it has
\* its session: the channel request on the bastion (bind 127.0.0.1:22,
\* destination endHost:endPort) is out only after the bastion session fired
\* ready, the connect to endHost exists only after that request was answered
\* with a stream, it comes after the bastion's in the order of connects, and
\* it is given that stream as its socket.
C17_EstablishConnectsInOrder ==
    \A o \in DOMAIN ops :
        IF options.bastionHost = None
        THEN /\ Cardinality(SessionsOf(o)) = 1
             /\ \A s \in SessionsOf(o) :
                   /\ sessions[s].host = options.endHost
                   /\ sessions[s].leg = "direct"
                   /\ sessions[s].sock = 0
             /\ ops[o].conn # 0 => sessions[ops[o].conn].attempted
             /\ ops[o].bastionChannel = "none"
        ELSE /\ Cardinality(SessionsOf(o)) <= 2
             /\ Cardinality({ s \in SessionsOf(o) : sessions[s].leg = "bastion" }) = 1
             /\ \A b \in SessionsOf(o) :
                   sessions[b].leg = "bastion" =>
                       /\ sessions[b].host = options.bastionHost
                       /\ sessions[b].sock = 0
                       /\ ops[o].bastionChannel # "none" =>
                             /\ sessions[b].st = "ready"
                             /\ ops[o].bastionRequest =
                                   [ srcHost |-> "127.0.0.1", srcPort |-> 22,
                                     dstHost |-> options.endHost,
                                     dstPort |-> options.endPort ]
                       /\ \A t \in SessionsOf(o) \ {b} :
                             /\ sessions[t].leg = "target"
                             /\ sessions[t].host = options.endHost
                             /\ ops[o].bastionChannel = "open"
                             /\ b < t
                             /\ sessions[t].sock = b
             /\ ops[o].conn # 0 =>
                   /\ Cardinality(SessionsOf(o)) = 2
                   /\ sessions[ops[o].conn].leg = "target"
                   /\ \A s \in SessionsOf(o) : sessions[s].attempted

\* C17 witness: a call that has its session through a bastion, the target on
\* a port of its own
C17_Witness ==
    \E o \in DOMAIN ops :
        /\ options.bastionHost # None
        /\ options.endPort = 2222
        /\ ops[o].conn # 0
        /\ sessions[ops[o].conn].st = "ready"

\* C18: every session of the registry has fired ready and is there once; a
\* session whose connect ended in an error event or a synchronous throw is
\* not in the registry; and when the connect to the target failed, the
\* bastion session it ran over is in the registry and the target session is
\* not.
C18_RegistryHoldsReadySessions ==
    /\ \A i \in DOMAIN connections :
          /\ sessions[connections[i]].st = "ready"
          /\ \A j \in DOMAIN connections : connections[j] = connections[i] => j = i
    /\ \A s \in DOMAIN sessions :
          sessions[s].st \in {"error", "threw"} =>
              /\ s \notin Range(connections)
              /\ sessions[s].leg = "target" => sessions[s].sock \in Range(connections)

\* C18 witness: a bastion chain whose second leg failed by an error event,
\* next to one whose second connect threw
C18_Witness ==
    \E s, t \in DOMAIN sessions :
        /\ sessions[s].leg = "target" /\ sessions[s].st = "error"
        /\ sessions[t].leg = "target" /\ sessions[t].st = "threw"
        /\ Len(connections) = 2

\* the case of C19: a key whose text contains "encrypted" in some casing,
\* no passphrase given, prompting not switched off
MustAsk ==
    /\ options.privateKey \in {UpperKey, LowerKey}
    /\ options.passphrase = None
    /\ ~options.noReadline

\* C19: in that case every connect has asked for the passphrase once, has
\* neither registered a handler nor called the transport while the answer is
\* out, and has called the transport with the answer as passphrase; in every
\* other case no connect has asked and the transport is given the passphrase
\* of the options.
C19_OnePromptBeforeConnect ==
    \A s \in DOMAIN sessions :
        IF MustAsk
        THEN /\ sessions[s].prompts = 1
             /\ sessions[s].st = "prompting" =>
                   (~sessions[s].attempted /\ ~sessions[s].listeners)
             /\ sessions[s].attempted =>
                   (sessions[s].st # "prompting" /\ sessions[s].passphrase \in Answers)
        ELSE /\ sessions[s].prompts = 0
             /\ sessions[s].st # "prompting"
             /\ sessions[s].passphrase = options.passphrase

\* C19 witness: a session made with a key marked ENCRYPTED in capitals, that
\* asked, got its answer and became ready
C19_Witness ==
    \E s \in DOMAIN sessions :
        /\ options.privateKey = UpperKey
        /\ sessions[s].prompts = 1
        /\ sessions[s].passphrase = "typed"
        /\ sessions[s].st = "ready"

\* C20: a session that fires ready after a run of shutdown() passed it over
\* while its connect was under way is not registered or is sent end at that
\* step, and no listener is created on it.
C20_ShutdownIsTerminal ==
    [][ \A s \in DOMAIN sessions :
          (sessions[s].overtaken /\ sessions[s].st = "connecting"
              /\ sessions'[s].st = "ready") =>
            /\ s \notin Range(connections') \/ sessions'[s].ends > 0
            /\ servers' = servers
      ]_vars

====
